---- MODULE Spec2Model ----
(***************************************************************************)
(* The ninja graph compiler of gftools (Lib/gftools/builder/ninja.py) and  *)
(* the InstantiateUFO operation                                            *)
(* (Lib/gftools/builder/operations/instantiateUfo.py).                     *)
(*                                                                         *)
(* File names, directory names and axis tags are TLA+ strings, handled     *)
(* character by character with Len, SubSeq and \o, so that the string      *)
(* manipulation of the program (replace, split, join, lower, the pathlib   *)
(* name algebra) is computed as the program computes it.                   *)
(***************************************************************************)
EXTENDS Integers, Sequences, FiniteSets, TLC

(***************************************************************************)
(* Python string and path primitives used by the builder.                  *)
(***************************************************************************)

\* s[i] as a one-character string
CharAt(s, i) == SubSeq(s, i, i)

\* s[i:].startswith(sub), 1-based
StartsWithAt(s, sub, i) ==
    /\ i + Len(sub) - 1 <= Len(s)
    /\ SubSeq(s, i, i + Len(sub) - 1) = sub

\* str.endswith
EndsWith(s, suf) ==
    /\ Len(suf) <= Len(s)
    /\ SubSeq(s, Len(s) - Len(suf) + 1, Len(s)) = suf

\* the `in` operator on two strings
Contains(s, sub) == \E i \in 1..(Len(s) - Len(sub) + 1) : StartsWithAt(s, sub, i)

RECURSIVE ReplaceFrom(_, _, _, _)
ReplaceFrom(s, old, new, i) ==
    IF i > Len(s) THEN ""
    ELSE IF StartsWithAt(s, old, i)
         THEN new \o ReplaceFrom(s, old, new, i + Len(old))
         ELSE CharAt(s, i) \o ReplaceFrom(s, old, new, i + 1)

RECURSIVE Interleave(_, _, _)
Interleave(s, new, i) ==
    IF i > Len(s) THEN new
    ELSE new \o CharAt(s, i) \o Interleave(s, new, i + 1)

\* str.replace(old, new): every non-overlapping occurrence, left to right;
\* an empty `old` matches before every character and at the end
Replace(s, old, new) ==
    IF old = "" THEN Interleave(s, new, 1) ELSE ReplaceFrom(s, old, new, 1)

\* the characters of the model in code-point order
Ascii == "-./0123456789ABCDEFGHIJKLMNOPQRSTUVWXYZ[]_abcdefghijklmnopqrstuvwxyz"
UpperCase == "ABCDEFGHIJKLMNOPQRSTUVWXYZ"
LowerCase == "abcdefghijklmnopqrstuvwxyz"

\* 1-based position of the one-character string c in table, 0 when absent
IndexIn(table, c) ==
    IF \E i \in 1..Len(table) : CharAt(table, i) = c
    THEN CHOOSE i \in 1..Len(table) : CharAt(table, i) = c
    ELSE 0

RECURSIVE LowerFrom(_, _)
LowerFrom(s, i) ==
    IF i > Len(s) THEN ""
    ELSE (IF IndexIn(UpperCase, CharAt(s, i)) > 0
          THEN CharAt(LowerCase, IndexIn(UpperCase, CharAt(s, i)))
          ELSE CharAt(s, i)) \o LowerFrom(s, i + 1)

\* str.lower
Lower(s) == LowerFrom(s, 1)

RECURSIVE StrLessFrom(_, _, _)
StrLessFrom(a, b, i) ==
    IF i > Len(b) THEN FALSE
    ELSE IF i > Len(a) THEN TRUE
    ELSE IF CharAt(a, i) = CharAt(b, i) THEN StrLessFrom(a, b, i + 1)
    ELSE IndexIn(Ascii, CharAt(a, i)) < IndexIn(Ascii, CharAt(b, i))

\* a < b on Python strings (lexicographic by code point)
StrLess(a, b) == StrLessFrom(a, b, 1)

RECURSIVE InsertSorted(_, _)
InsertSorted(x, l) ==
    IF l = <<>> THEN <<x>>
    ELSE IF StrLess(x, Head(l)) THEN <<x>> \o l
    ELSE <<Head(l)>> \o InsertSorted(x, Tail(l))

RECURSIVE Sorted(_)
\* sorted(list of strings); stable
Sorted(l) ==
    IF l = <<>> THEN <<>>
    ELSE InsertSorted(l[Len(l)], Sorted(SubSeq(l, 1, Len(l) - 1)))

RECURSIVE Join(_, _)
\* sep.join(list)
Join(l, sep) ==
    IF l = <<>> THEN ""
    ELSE IF Len(l) = 1 THEN l[1]
    ELSE l[1] \o sep \o Join(Tail(l), sep)

RECURSIVE SplitFrom(_, _, _, _)
SplitFrom(s, sep, i, cur) ==
    IF i > Len(s) THEN <<cur>>
    ELSE IF CharAt(s, i) = sep
         THEN <<cur>> \o SplitFrom(s, sep, i + 1, "")
         ELSE SplitFrom(s, sep, i + 1, cur \o CharAt(s, i))

\* str.split(sep) for a one-character separator; "".split(sep) is [""]
Split(s, sep) == SplitFrom(s, sep, 1, "")

\* str.rfind of a one-character string, 1-based, 0 when absent
RFind(s, c) ==
    IF \E i \in 1..Len(s) : CharAt(s, i) = c
    THEN CHOOSE i \in 1..Len(s) :
            /\ CharAt(s, i) = c
            /\ \A j \in (i + 1)..Len(s) : CharAt(s, j) # c
    ELSE 0

\* os.path.basename
Basename(p) == SubSeq(p, RFind(p, "/") + 1, Len(p))

\* os.path.join of two parts
OsPathJoin(a, b) ==
    IF StartsWithAt(b, "/", 1) THEN b
    ELSE IF a = "" \/ EndsWith(a, "/") THEN a \o b
    ELSE a \o "/" \o b

RECURSIVE DropDots(_)
DropDots(l) ==
    IF l = <<>> THEN <<>>
    ELSE IF Head(l) = "" \/ Head(l) = "." THEN DropDots(Tail(l))
    ELSE <<Head(l)>> \o DropDots(Tail(l))

\* the parts of a pathlib.Path: empty and "." components are dropped
PathParts(p) == DropDots(Split(p, "/"))

IsAbs(p) == StartsWithAt(p, "/", 1)

\* str(Path) from its anchor and parts
PathFromParts(abs, parts) ==
    IF abs THEN "/" \o Join(parts, "/")
    ELSE IF parts = <<>> THEN "."
    ELSE Join(parts, "/")

\* str(Path(p))
PathStr(p) == PathFromParts(IsAbs(p), PathParts(p))

\* str(Path(a) / b)
PathDiv(a, b) ==
    IF IsAbs(b) THEN PathStr(b)
    ELSE PathFromParts(IsAbs(a), PathParts(a) \o PathParts(b))

\* str(Path(p).parent)
PathParent(p) ==
    IF PathParts(p) = <<>> THEN PathStr(p)
    ELSE PathFromParts(IsAbs(p), SubSeq(PathParts(p), 1, Len(PathParts(p)) - 1))

\* Path(p).name
PathName(p) ==
    IF PathParts(p) = <<>> THEN "" ELSE PathParts(p)[Len(PathParts(p))]

\* Path(p).stem: the name up to its last dot, unless that dot leads or ends it
PathStem(p) ==
    IF 1 < RFind(PathName(p), ".") /\ RFind(PathName(p), ".") < Len(PathName(p))
    THEN SubSeq(PathName(p), 1, RFind(PathName(p), ".") - 1)
    ELSE PathName(p)

\* Path(p).with_suffix(suffix).name
WithSuffixName(p, suffix) == PathStem(p) \o suffix

(***************************************************************************)
(* The files the builder reads.  A source is a designspace file or a       *)
(* .glyphs file; DesignSpaceDocument.fromfile and glyphsLib give, for      *)
(* each, the designspace's file name, its axis tags in document order,     *)
(* the file names of its masters and the names and file names of its       *)
(* instances.                                                              *)
(***************************************************************************)

Instance(n, fn) == [name |-> n, filename |-> fn]

Document(src) ==
    CASE src = "sources/Fam.designspace" ->
            [filename |-> "Fam.designspace", axes |-> <<"wght", "wdth">>,
             sources |-> <<"Fam-Regular.ufo", "Fam-Bold.ufo">>,
             instances |-> <<Instance("Regular", "instance_ufos/Fam-Regular.ufo")>>]
      [] src = "sources/Fam-Italic.designspace" ->
            [filename |-> "Fam-Italic.designspace", axes |-> <<"wght">>,
             sources |-> <<"Fam-Italic.ufo">>,
             instances |-> <<Instance("Italic", "Fam-Italic.ufo")>>]
      [] src = "alt/Fam.designspace" ->
            [filename |-> "Fam.designspace", axes |-> <<"wdth", "wght">>,
             sources |-> <<"Fam-Regular.ufo">>,
             instances |-> <<Instance("Regular", "Fam-Regular.ufo")>>]
      [] src = "sources/Fam.glyphs" ->
            [filename |-> "FamG.designspace", axes |-> <<"wght">>,
             sources |-> <<"FamG-Regular.ufo", "FamG-Bold.ufo", "FamG-Regular.ufo">>,
             instances |-> <<Instance("Medium", "instance_ufos/FamG-Medium.ufo")>>]
      [] OTHER ->
            [filename |-> "FamH.designspace", axes |-> <<"wght">>,
             sources |-> <<"FamG-Bold.ufo">>,
             instances |-> <<Instance("Bold", "instance_ufos/FamH-Bold.ufo")>>]

\* the source lists a recipe may configure
SourceLists ==
    { <<>>,
      <<"sources/Fam.designspace">>,
      <<"sources/Fam-Italic.designspace">>,
      <<"sources/Fam.glyphs">>,
      <<"sources/Fam.designspace", "sources/Fam-Italic.designspace">>,
      <<"sources/Fam-Italic.designspace", "sources/Fam.designspace">>,
      <<"sources/Fam.designspace", "alt/Fam.designspace">>,
      <<"sources/Fam.glyphs", "alt/FamH.glyphs">>,
      <<"sources/Fam.glyphs", "sources/Fam-Italic.designspace">> }

(***************************************************************************)
(* The configuration handed to the builder: a dict, here a function from   *)
(* its keys to their values.  The keys the builder indexes directly are    *)
(* always present; the keys it tests with `in` or .get are optional.       *)
(***************************************************************************)

BaseConfig ==
    [sources |-> <<"sources/Fam.designspace">>,
     buildVariable |-> TRUE, buildStatic |-> TRUE,
     buildOTF |-> TRUE, buildTTF |-> TRUE, buildWebfont |-> TRUE,
     autohintTTF |-> TRUE, ttfaUseScript |-> FALSE,
     includeSourceFixes |-> FALSE,
     flattenComponents |-> TRUE, decomposeTransformedComponents |-> TRUE,
     logLevel |-> "INFO",
     vfDir |-> "fonts/variable", ttDir |-> "fonts/ttf",
     otDir |-> "fonts/otf", woffDir |-> "fonts/webfonts"]

\* the dict d with the entries of upd set
With(d, upd) == upd @@ d

Toggles ==
    { [buildVariable |-> bv, buildStatic |-> bs, buildOTF |-> bo,
       buildTTF |-> bt, buildWebfont |-> bw, autohintTTF |-> ah] :
      bv \in BOOLEAN, bs \in BOOLEAN, bo \in BOOLEAN,
      bt \in BOOLEAN, bw \in BOOLEAN, ah \in BOOLEAN }

\* optional and tool-flag keys, alone and with a falsy value
Extras ==
    { [axisOrder |-> <<"wdth", "wght">>],
      [stat |-> "stat.yaml"],
      [stylespaceFile |-> "Fam.stylespace"],
      [stylespaceFile |-> ""],
      [statFormat4 |-> <<"Regular">>],
      [statFormat4 |-> <<>>],
      [ttfaUseScript |-> TRUE],
      [vttSources |-> <<"Fam.ttx">>],
      [vttSources |-> <<>>],
      [vttSources |-> <<>>, buildVariable |-> FALSE],
      [logLevel |-> "DEBUG"],
      [includeSourceFixes |-> TRUE],
      [flattenComponents |-> FALSE, decomposeTransformedComponents |-> FALSE] }

\* output directories: unnormalised, with a trailing separator, and a
\* compiled-format directory whose name also occurs in the file names
Directories ==
    { [ttDir |-> "./fonts/ttf"],
      [ttDir |-> "fonts/ttf/"],
      [ttDir |-> "Fam", woffDir |-> "Web"],
      [ttDir |-> "out.ttf", woffDir |-> "out.woff2"] }

Configs ==
    { With(BaseConfig, [sources |-> s, buildOTF |-> FALSE]) : s \in SourceLists }
    \cup { With(BaseConfig, [sources |-> s, buildStatic |-> FALSE,
                             axisOrder |-> <<"wght", "wdth">>]) : s \in SourceLists }
    \cup { With(BaseConfig, t) : t \in Toggles }
    \cup { With(BaseConfig, x) : x \in Extras }
    \cup { With(With(BaseConfig, [buildVariable |-> FALSE, buildOTF |-> FALSE]), d) :
             d \in Directories }

Has(d, key) == key \in DOMAIN d

\* bool(value) of an unsupported key: a flag, a file name, a list or a map
Truthy(d, key) ==
    CASE key = "ttfaUseScript" -> d[key]
      [] key = "stylespaceFile" -> d[key] # ""
      [] OTHER -> Len(d[key]) > 0

\* dict.get(key) is truthy
GetTruthy(d, key) == Has(d, key) /\ Truthy(d, key)

UNSUPPORTED == <<"stylespaceFile", "statFormat4", "ttfaUseScript", "vttSources">>

(***************************************************************************)
(* The graph description: rule declarations and build statements.          *)
(***************************************************************************)

\* Writer.build: one build statement.  outputs, inputs and implicit are
\* lists (a single name is a one-element list, None the empty list)
Edge(outs, rule, ins, imp, vars) ==
    [outputs |-> outs, rule |-> rule, inputs |-> ins, implicit |-> imp,
     variables |-> vars]

\* what a stage method leaves behind: the statements it wrote, the stamp
\* files it recorded and the exception it raised ("" when it returned)
Emitted(es, ts, e) == [edges |-> es, temps |-> ts, err |-> e]

\* setup_rules: the rule names declared, in order
RuleNames(cfg) ==
    <<"glyphs2ufo">>
    \o (IF cfg["buildVariable"] THEN <<"variable">> ELSE <<>>)
    \o <<"instanceufo", "buildttf", "buildotf", "genstat", "fix", "autohint",
         "webfont">>

\* the command template of a rule
RuleCommand(name) ==
    CASE name = "glyphs2ufo" -> "fontmake -o ufo -g $in"
      [] name = "variable" -> "fontmake -o variable -m $in $fontmake_args"
      [] name = "instanceufo" -> "fontmake -i -o ufo -m $in $fontmake_args"
      [] name = "buildttf" -> "fontmake -o ttf -u $in $fontmake_args --output-path $out"
      [] name = "buildotf" -> "fontmake -o otf -u $in $fontmake_args --output-path $out"
      [] name = "genstat" -> "gftools-gen-stat.py --inplace $other_args --axis-order $axis_order -- $in  && touch $stampfile"
      [] name = "fix" -> "gftools-fix-font.py -o $in $fixargs $in && touch $in.fixstamp"
      [] name = "autohint" -> "ttfautohint $in $in.autohinted && mv $in.autohinted $in && touch $in.autohintstamp"
      [] OTHER -> "fonttools ttLib.woff2 compress -o $out $in"

setup_rules(cfg) ==
    [i \in 1..Len(RuleNames(cfg)) |->
        [name |-> RuleNames(cfg)[i], command |-> RuleCommand(RuleNames(cfg)[i])]]

\* the elements of a list, as a set
Range(l) == { l[i] : i \in 1..Len(l) }

\* the lists that enumerate a set once each: the orders list(set(...)) may give
Enumerations(S) ==
    { q \in [1..Cardinality(S) -> S] : Range(q) = S }

IsGlyphs(source) == EndsWith(source, ".glyphs")

\* get_designspaces: the designspace path of a source
DesignspacePath(source) ==
    IF IsGlyphs(source)
    THEN OsPathJoin("master_ufo", Document(source).filename)
    ELSE source

\* get_designspaces: the master paths of a converted glyphs source
MasterPaths(source) ==
    { OsPathJoin("master_ufo", Document(source).sources[i]) :
        i \in 1..Len(Document(source).sources) }

\* get_designspaces: the (path, designspace) pairs
Designspaces(cfg) ==
    [i \in 1..Len(cfg["sources"]) |->
        [path |-> DesignspacePath(cfg["sources"][i]),
         doc |-> Document(cfg["sources"][i])]]

RECURSIVE ConversionEdges(_, _)
\* get_designspaces: one glyphs2ufo statement per glyphs source; order[i]
\* is the order in which the set of masters of source i is listed
ConversionEdges(srcs, order) ==
    IF srcs = <<>> THEN <<>>
    ELSE ConversionEdges(SubSeq(srcs, 1, Len(srcs) - 1), order)
         \o (IF IsGlyphs(srcs[Len(srcs)])
             THEN <<Edge(<<DesignspacePath(srcs[Len(srcs)])>> \o order[Len(srcs)],
                         "glyphs2ufo", <<srcs[Len(srcs)]>>, <<>>, <<>>)>>
             ELSE <<>>)

\* the choices of master order, one per source
MasterOrders(srcs) ==
    { o \in [1..Len(srcs) ->
                UNION { Enumerations(MasterPaths(srcs[i])) : i \in 1..Len(srcs) }] :
        \A i \in 1..Len(srcs) : o[i] \in Enumerations(MasterPaths(srcs[i])) }

fontmake_args(cfg, args) ==
    Join(<<"--filter ...">>
         \o (IF cfg["flattenComponents"]
             THEN <<"--filter FlattenComponentsFilter">> ELSE <<>>)
         \o (IF cfg["decomposeTransformedComponents"]
             THEN <<"--filter DecomposeTransformedComponentsFilter">> ELSE <<>>)
         \o (IF Has(args, "output_dir")
             THEN <<"--output-dir " \o args["output_dir"]>> ELSE <<>>)
         \o (IF Has(args, "output_path")
             THEN <<"--output-path " \o args["output_path"]>> ELSE <<>>),
         " ")

\* build_variable: the sorted, comma-joined axis tags of a designspace
AxisTags(ds) == Join(Sorted(ds.doc.axes), ",")

\* build_variable: the variable font compiled from a designspace
VariableTarget(cfg, ds) ==
    OsPathJoin(cfg["vfDir"], PathStem(ds.path) \o "[" \o AxisTags(ds) \o "].ttf")

VariableTargets(cfg, dss) ==
    [i \in 1..Len(dss) |-> VariableTarget(cfg, dss[i])]

\* build_variable: one compile statement per designspace
VariableEdges(cfg, dss) ==
    [i \in 1..Len(dss) |->
        Edge(<<VariableTarget(cfg, dss[i])>>, "variable", <<dss[i].path>>, <<>>,
             [fontmake_args |->
                fontmake_args(cfg, [output_path |-> VariableTarget(cfg, dss[i])])])]

\* gen_stat: the "is-italic" test on the designspace paths
AnyItalic(dss) ==
    \E i \in 1..Len(dss) : Contains(Lower(dss[i].path), "italic")

\* gen_stat filling in the axis order even over an override
GenStatConfig_overwrite(cfg, dss, axis_tags) ==
    With(cfg, [axisOrder |->
                 Split(axis_tags, ",")
                 \o (IF AnyItalic(dss) THEN <<"ital">> ELSE <<>>)])

\* gen_stat: the configuration after the axis order default is filled in
GenStatConfig(cfg, dss, axis_tags) ==
    IF Has(cfg, "axisOrder") THEN cfg
    ELSE With(cfg, [axisOrder |->
                      Split(axis_tags, ",")
                      \o (IF AnyItalic(dss) THEN <<"ital">> ELSE <<>>)])

\* gen_stat: the stamp file of the table-generation statement
StatStamp(targets) == targets[1] \o ".statstamp"

\* gen_stat handing only the first target to the table-generation statement
gen_stat_first_target(cfg, targets) ==
    IF Has(cfg, "stylespaceFile") \/ Has(cfg, "statFormat4")
    THEN Emitted(<<>>, <<>>, "ValueError")
    ELSE Emitted(<<Edge(<<StatStamp(targets)>>, "genstat", SubSeq(targets, 1, 1), <<>>,
                        [axis_order |-> cfg["axisOrder"],
                         other_args |-> IF Has(cfg, "stat")
                                        THEN "--src " \o cfg["stat"] ELSE "",
                         stampfile |-> StatStamp(targets)])>>,
                 <<StatStamp(targets)>>, "")

\* gen_stat, given the configuration it has already updated
gen_stat(cfg, targets) ==
    IF Has(cfg, "stylespaceFile") \/ Has(cfg, "statFormat4")
    THEN Emitted(<<>>, <<>>, "ValueError")
    ELSE Emitted(<<Edge(<<StatStamp(targets)>>, "genstat", targets, <<>>,
                        [axis_order |-> cfg["axisOrder"],
                         other_args |-> IF Has(cfg, "stat")
                                        THEN "--src " \o cfg["stat"] ELSE "",
                         stampfile |-> StatStamp(targets)])>>,
                 <<StatStamp(targets)>>, "")

\* post_process: the fix statement of a file; implicit is a list
post_process(cfg, file, implicit) ==
    Emitted(<<Edge(<<file \o ".fixstamp">>, "fix", <<file>>, implicit,
                   IF cfg["includeSourceFixes"]
                   THEN [fixargs |-> "--include-source-fixes"] ELSE <<>>)>>,
            <<file \o ".fixstamp">>, "")

\* run step after what prev left behind, unless prev raised
Then(prev, step) ==
    IF prev.err # "" THEN prev
    ELSE Emitted(prev.edges \o step.edges, prev.temps \o step.temps, step.err)

RECURSIVE PostProcessAll(_, _, _)
\* build_variable: post_process(t, implicit=stampfile) for t in targets
PostProcessAll(cfg, targets, implicit) ==
    IF targets = <<>> THEN Emitted(<<>>, <<>>, "")
    ELSE Then(PostProcessAll(cfg, SubSeq(targets, 1, Len(targets) - 1), implicit),
              post_process(cfg, targets[Len(targets)], implicit))

\* build_variable, given the configuration gen_stat leaves; the axis tags
\* handed to gen_stat are those the loop computed last
build_variable(cfg, dss) ==
    IF dss = <<>>
    THEN Emitted(<<>>, <<>>, "UnboundLocalError")
    ELSE Then(Then(Emitted(VariableEdges(cfg, dss), <<>>, ""),
                   gen_stat(cfg, VariableTargets(cfg, dss))),
              PostProcessAll(cfg, VariableTargets(cfg, dss),
                             <<StatStamp(VariableTargets(cfg, dss))>>))

\* build_variable: the configuration it leaves
BuildVariableConfig(cfg, dss) ==
    IF dss = <<>> THEN cfg
    ELSE GenStatConfig(cfg, dss, AxisTags(dss[Len(dss)]))

\* _instance_ufo_filenames: a file name with a directory is taken as it
\* is, a bare one is placed beside the designspace
InstanceUfo(ds, i) ==
    IF Contains(ds.doc.instances[i].filename, "/")
    THEN PathStr(ds.doc.instances[i].filename)
    ELSE PathDiv(PathParent(ds.path), ds.doc.instances[i].filename)

_instance_ufo_filenames(ds) ==
    [i \in 1..Len(ds.doc.instances) |-> InstanceUfo(ds, i)]

\* build_static: one instanceufo statement per designspace
InstanceEdges(dss) ==
    [i \in 1..Len(dss) |->
        Edge(_instance_ufo_filenames(dss[i]), "instanceufo", <<dss[i].path>>,
             <<>>, <<>>)]

RECURSIVE AllInstanceUfos(_)
\* build_a_static_format: the instance UFOs of all designspaces, in order
AllInstanceUfos(dss) ==
    IF dss = <<>> THEN <<>>
    ELSE AllInstanceUfos(SubSeq(dss, 1, Len(dss) - 1))
         \o _instance_ufo_filenames(dss[Len(dss)])

TargetDir(cfg, format) == IF format = "ttf" THEN cfg["ttDir"] ELSE cfg["otDir"]

\* build_a_static_format: the binary compiled from an instance UFO
StaticTarget(cfg, format, ufo) ==
    PathDiv(TargetDir(cfg, format), WithSuffixName(ufo, "." \o format))

StaticTargets(cfg, format, dss) ==
    [i \in 1..Len(AllInstanceUfos(dss)) |->
        StaticTarget(cfg, format, AllInstanceUfos(dss)[i])]

\* build_a_static_format: one compile statement per instance UFO
StaticEdges(cfg, format, dss) ==
    [i \in 1..Len(AllInstanceUfos(dss)) |->
        Edge(<<StaticTargets(cfg, format, dss)[i]>>, "build" \o format,
             <<AllInstanceUfos(dss)[i]>>, <<>>,
             [fontmake_args |->
                fontmake_args(cfg, [output_path |-> StaticTargets(cfg, format, dss)[i]])])]

\* post_process_ttf: the web font packaged from a TTF
WebfontFilename(cfg, filename) ==
    Replace(Replace(filename, ".ttf", ".woff2"), cfg["ttDir"], cfg["woffDir"])

\* post_process_ttf hinting without ordering the fix after the hint
HintAndFix_unordered(cfg, filename) ==
    IF cfg["autohintTTF"]
    THEN IF cfg["ttfaUseScript"]
         THEN Emitted(<<>>, <<>>, "NotImplementedError")
         ELSE Then(Emitted(<<Edge(<<filename \o ".autohintstamp">>, "autohint",
                                  <<filename>>, <<>>, <<>>)>>,
                           <<filename \o ".autohintstamp">>, ""),
                   post_process(cfg, filename, <<>>))
    ELSE post_process(cfg, filename, <<>>)

\* post_process_ttf: the hint and fix statements of a TTF
HintAndFix(cfg, filename) ==
    IF cfg["autohintTTF"]
    THEN IF cfg["ttfaUseScript"]
         THEN Emitted(<<>>, <<>>, "NotImplementedError")
         ELSE Then(Emitted(<<Edge(<<filename \o ".autohintstamp">>, "autohint",
                                  <<filename>>, <<>>, <<>>)>>,
                           <<filename \o ".autohintstamp">>, ""),
                   post_process(cfg, filename, <<filename \o ".autohintstamp">>))
    ELSE post_process(cfg, filename, <<>>)

\* post_process_ttf packaging the web font without waiting for the fix
post_process_ttf_unordered(cfg, filename) ==
    Then(HintAndFix(cfg, filename),
         IF cfg["buildWebfont"]
         THEN Emitted(<<Edge(<<WebfontFilename(cfg, filename)>>, "webfont",
                             <<filename>>, <<>>, <<>>)>>,
                      <<>>, "")
         ELSE Emitted(<<>>, <<>>, ""))

post_process_ttf(cfg, filename) ==
    Then(HintAndFix(cfg, filename),
         IF cfg["buildWebfont"]
         THEN Emitted(<<Edge(<<WebfontFilename(cfg, filename)>>, "webfont",
                             <<filename>>, <<filename \o ".fixstamp">>, <<>>)>>,
                      <<>>, "")
         ELSE Emitted(<<>>, <<>>, ""))

\* the postprocessor of a format, applied to one target
Postprocess(cfg, format, target) ==
    IF format = "ttf" THEN post_process_ttf(cfg, target)
    ELSE post_process(cfg, target, <<>>)

RECURSIVE PostprocessTargets(_, _, _)
\* build_a_static_format: postprocessor(t) for t in targets
PostprocessTargets(cfg, format, targets) ==
    IF targets = <<>> THEN Emitted(<<>>, <<>>, "")
    ELSE Then(PostprocessTargets(cfg, format, SubSeq(targets, 1, Len(targets) - 1)),
              Postprocess(cfg, format, targets[Len(targets)]))

build_a_static_format(cfg, format, dss) ==
    Then(Emitted(StaticEdges(cfg, format, dss), <<>>, ""),
         PostprocessTargets(cfg, format, StaticTargets(cfg, format, dss)))

\* GFBuilder.build_static: each requested format in turn, OTF with the plain
\* fix step and TTF with the hint, fix and web font steps
GFBuilder_build_static(cfg, dss) ==
    Then(IF cfg["buildOTF"] THEN build_a_static_format(cfg, "otf", dss)
         ELSE Emitted(<<>>, <<>>, ""),
         IF cfg["buildTTF"] THEN build_a_static_format(cfg, "ttf", dss)
         ELSE Emitted(<<>>, <<>>, ""))

build_static(cfg, dss) ==
    Then(Emitted(InstanceEdges(dss), <<>>, ""), GFBuilder_build_static(cfg, dss))

\* build_vtt, reached when the configuration has the key vttSources
build_vtt(cfg) ==
    IF Has(cfg, "vttSources") THEN Emitted(<<>>, <<>>, "NotImplementedError")
    ELSE Emitted(<<>>, <<>>, "")

(***************************************************************************)
(* The executor (ninja) reads the finished graph description and runs its  *)
(* statements; a statement may start once every input and implicit input   *)
(* that some statement outputs has been produced.  When two statements     *)
(* name the same output, ninja either refuses the file (dupbuild=err) or   *)
(* drops the output from the later statement (dupbuild=warn), and drops a  *)
(* statement left without outputs.                                         *)
(***************************************************************************)

\* number of statements the executor runs at once unless told -j 1
MaxJobs == 2

\* every path some statement of the graph outputs
AllOutputs(g) == UNION { Range(g[i].outputs) : i \in 1..Len(g) }

\* the inputs and implicit inputs of statement i
Needs(g, i) == Range(g[i].inputs) \cup Range(g[i].implicit)

\* the outputs statement i keeps: those no earlier statement outputs
EffectiveOutputs(g, i) ==
    Range(g[i].outputs) \ UNION { Range(g[j].outputs) : j \in 1..(i - 1) }

\* the statements the executor runs
LiveEdges(g) == { i \in 1..Len(g) : EffectiveOutputs(g, i) # {} }

\* some path is an output of two statements, or twice of one
HasDuplicateOutputs(g) ==
    \/ \E i, j \in 1..Len(g) :
          i # j /\ Range(g[i].outputs) \cap Range(g[j].outputs) # {}
    \/ \E i \in 1..Len(g) : Cardinality(Range(g[i].outputs)) # Len(g[i].outputs)

\* the statements that produce an input or implicit input of statement i
Producers(g, i) ==
    { j \in LiveEdges(g) : EffectiveOutputs(g, j) \cap Needs(g, i) # {} }

\* the dependency graph ninja builds from the file: for every statement it
\* runs, the statements that must finish first
DependencyGraph(g) == [i \in LiveEdges(g) |-> Producers(g, i)]

\* ninja_args: -j 1 in debug mode
Jobs(cfg) == IF cfg["logLevel"] = "DEBUG" THEN 1 ELSE MaxJobs

(***************************************************************************)
(* NinjaBuilder.build as a state machine.                                  *)
(***************************************************************************)

VARIABLES
    config,        \* self.config
    pc,            \* the statement of build() to run next
    err,           \* the exception build() raised, "" if none
    ninjaFile,     \* build.ninja: "absent", "open" or "closed"
    rules,         \* the rule declarations written
    edges,         \* the build statements written, in order
    temporaries,   \* self.temporaries
    designspaces,  \* self.designspaces
    disk,          \* the files written so far by the builder and the tools
    running,       \* the statements the executor is running
    done,          \* the statements the executor has finished
    ninjaRc,       \* the executor's exit code, -1 before it exits
    plan,          \* the executor's dependency graph, once it has read the file
    recipe,        \* the configuration as the caller handed it over
    original,      \* InstantiateUFO: self.original, the step's configuration
    first_source,  \* InstantiateUFO: self.first_source
    opPc,          \* InstantiateUFO: "new", "validated", "done" or "failed"
    opErr,         \* InstantiateUFO: the exception raised, "" if none
    opTargets,     \* InstantiateUFO: the value of .targets once computed
    cache          \* InstantiateUFO: the cached relevant_instance, if computed

builderVars == <<config, pc, err, ninjaFile, rules, edges, temporaries,
                 designspaces, disk, running, done, ninjaRc, plan, recipe>>

operationVars == <<original, first_source, opPc, opErr, opTargets, cache>>

vars == <<builderVars, operationVars>>

Init ==
    /\ config \in Configs
    /\ pc = "scan"
    /\ err = ""
    /\ ninjaFile = "absent"
    /\ rules = <<>>
    /\ edges = <<>>
    /\ temporaries = <<>>
    /\ designspaces = <<>>
    /\ disk = {}
    /\ running = {}
    /\ done = {}
    /\ ninjaRc = -1
    /\ plan = <<>>
    /\ recipe = config
    /\ original = <<>>
    /\ first_source = <<>>
    /\ opPc = "idle"
    /\ opErr = ""
    /\ opTargets = <<>>
    /\ cache = <<>>

\* build(): the scan of the unsupported keys
ScanUnsupported ==
    /\ pc = "scan"
    /\ IF \E i \in 1..Len(UNSUPPORTED) : GetTruthy(config, UNSUPPORTED[i])
       THEN pc' = "raised" /\ err' = "NotImplementedError"
       ELSE pc' = "setup" /\ err' = err
    /\ UNCHANGED <<config, ninjaFile, rules, edges, temporaries, designspaces,
                   disk, running, done, ninjaRc, plan>>
    /\ UNCHANGED <<recipe, operationVars>>

\* build(): open build.ninja, reset the transient list, declare the rules
SetupRules ==
    /\ pc = "setup"
    /\ ninjaFile' = "open"
    /\ temporaries' = <<>>
    /\ rules' = setup_rules(config)
    /\ pc' = "designspaces"
    /\ UNCHANGED <<config, err, edges, designspaces, disk, running, done, ninjaRc, plan>>
    /\ UNCHANGED <<recipe, operationVars>>

\* build(): get_designspaces, which also writes the designspace of every
\* glyphs source under master_ufo/
GetDesignspaces ==
    /\ pc = "designspaces"
    /\ \E order \in MasterOrders(config["sources"]) :
          edges' = edges \o ConversionEdges(config["sources"], order)
    /\ designspaces' = Designspaces(config)
    /\ disk' = disk \cup { DesignspacePath(config["sources"][i]) :
                             i \in { k \in 1..Len(config["sources"]) :
                                       IsGlyphs(config["sources"][k]) } }
    /\ pc' = "variable"
    /\ UNCHANGED <<config, err, ninjaFile, rules, temporaries, running, done,
                   ninjaRc, plan>>
    /\ UNCHANGED <<recipe, operationVars>>

\* what the variable stage of build() leaves behind
VariableStageResult ==
    Then(build_variable(BuildVariableConfig(config, designspaces), designspaces),
         build_vtt(config))

\* build(): the variable stage, build_variable and then build_vtt
VariableStage ==
    /\ pc = "variable"
    /\ IF config["buildVariable"]
       THEN /\ config' = BuildVariableConfig(config, designspaces)
            /\ edges' = edges \o VariableStageResult.edges
            /\ temporaries' = temporaries \o VariableStageResult.temps
            /\ err' = VariableStageResult.err
            /\ pc' = IF VariableStageResult.err # "" THEN "raised" ELSE "static"
       ELSE /\ pc' = "static"
            /\ UNCHANGED <<config, edges, temporaries, err>>
    /\ UNCHANGED <<ninjaFile, rules, designspaces, disk, running, done, ninjaRc, plan>>
    /\ UNCHANGED <<recipe, operationVars>>

\* what the static stage of build() leaves behind
StaticStageResult ==
    Then(build_static(config, designspaces), build_vtt(config))

\* build(): the static stage, build_static and then build_vtt
StaticStage ==
    /\ pc = "static"
    /\ IF config["buildStatic"]
       THEN /\ edges' = edges \o StaticStageResult.edges
            /\ temporaries' = temporaries \o StaticStageResult.temps
            /\ err' = StaticStageResult.err
            /\ pc' = IF StaticStageResult.err # "" THEN "raised" ELSE "close"
       ELSE /\ pc' = "close"
            /\ UNCHANGED <<edges, temporaries, err>>
    /\ UNCHANGED <<config, ninjaFile, rules, designspaces, disk, running, done,
                   ninjaRc, plan>>
    /\ UNCHANGED <<recipe, operationVars>>

\* build(): self.w.close()
CloseWriter ==
    /\ pc = "close"
    /\ ninjaFile' = "closed"
    /\ pc' = "ninja"
    /\ UNCHANGED <<config, err, rules, edges, temporaries, designspaces, disk,
                   running, done, ninjaRc, plan>>
    /\ UNCHANGED <<recipe, operationVars>>

\* ninja reads build.ninja and accepts it
NinjaLoad ==
    /\ pc = "ninja"
    /\ plan' = DependencyGraph(edges)
    /\ pc' = "running"
    /\ UNCHANGED <<config, err, ninjaFile, rules, edges, temporaries,
                   designspaces, disk, running, done, ninjaRc>>
    /\ UNCHANGED <<recipe, operationVars>>

\* ninja reads build.ninja and refuses it: two statements share an output
NinjaReject ==
    /\ pc = "ninja"
    /\ HasDuplicateOutputs(edges)
    /\ ninjaRc' = 1
    /\ pc' = "tidy"
    /\ UNCHANGED <<config, err, ninjaFile, rules, edges, temporaries,
                   designspaces, disk, running, done, plan>>
    /\ UNCHANGED <<recipe, operationVars>>

\* ninja starts a statement whose inputs are up to date
NinjaStart(i) ==
    /\ pc = "running"
    /\ i \in DOMAIN plan \ (running \cup done)
    /\ Cardinality(running) < Jobs(config)
    /\ plan[i] \subseteq done
    /\ running' = running \cup {i}
    /\ UNCHANGED <<config, pc, err, ninjaFile, rules, edges, temporaries,
                   designspaces, disk, done, ninjaRc, plan>>
    /\ UNCHANGED <<recipe, operationVars>>

\* the command of a statement finishes, having written its outputs
NinjaFinish(i) ==
    /\ pc = "running"
    /\ i \in running
    /\ running' = running \ {i}
    /\ done' = done \cup {i}
    /\ disk' = disk \cup Range(edges[i].outputs)
    /\ UNCHANGED <<config, pc, err, ninjaFile, rules, edges, temporaries,
                   designspaces, ninjaRc, plan>>
    /\ UNCHANGED <<recipe, operationVars>>

\* ninja exits with success once every statement has run
NinjaExit ==
    /\ pc = "running"
    /\ done = DOMAIN plan
    /\ ninjaRc' = 0
    /\ pc' = "tidy"
    /\ UNCHANGED <<config, err, ninjaFile, rules, edges, temporaries,
                   designspaces, disk, running, done, plan>>
    /\ UNCHANGED <<recipe, operationVars>>

\* build(): the loop over self.temporaries.  os has no attribute `file`,
\* so evaluating os.file.exists raises on the first stamp file
TidyUp ==
    /\ pc = "tidy"
    /\ IF temporaries = <<>>
       THEN pc' = "returned" /\ err' = err
       ELSE pc' = "raised" /\ err' = "AttributeError"
    /\ UNCHANGED <<config, ninjaFile, rules, edges, temporaries, designspaces,
                   disk, running, done, ninjaRc, plan>>
    /\ UNCHANGED <<recipe, operationVars>>

Next ==
    \/ ScanUnsupported
    \/ SetupRules
    \/ GetDesignspaces
    \/ VariableStage
    \/ StaticStage
    \/ CloseWriter
    \/ NinjaLoad
    \/ NinjaReject
    \/ \E i \in DOMAIN plan : NinjaStart(i)
    \/ \E i \in running : NinjaFinish(i)
    \/ NinjaExit
    \/ TidyUp

Spec == Init /\ [][Next]_vars

(***************************************************************************)
(* The InstantiateUFO operation.  An optional value (None or a value) is   *)
(* a list of no or one element.                                            *)
(***************************************************************************)

None == <<>>
Some(v) == <<v>>
IsNone(o) == Len(o) = 0

\* an instance of the upstream source; its file name is optional
InstanceDescriptor(n, fn) == [name |-> n, filename |-> fn]

\* the upstream sources an operation may be attached to
FirstSources ==
    { [path |-> "sources/Fam.designspace", is_glyphs |-> FALSE,
       instances |-> <<InstanceDescriptor("Regular", Some("instance_ufos/Fam-Regular.ufo")),
                       InstanceDescriptor("Bold", Some("Fam-Bold.ufo"))>>],
      [path |-> "sources/Dup.designspace", is_glyphs |-> FALSE,
       instances |-> <<InstanceDescriptor("Bold", Some("a/Fam-Bold.ufo")),
                       InstanceDescriptor("Regular", Some("a/Fam-Regular.ufo")),
                       InstanceDescriptor("Regular", Some("b/Fam-Regular.ufo"))>>],
      [path |-> "sources/Bare.designspace", is_glyphs |-> FALSE,
       instances |-> <<InstanceDescriptor("Regular", None),
                       InstanceDescriptor("Bold", Some("Fam-Bold.ufo"))>>],
      [path |-> "sources/Fam.glyphs", is_glyphs |-> TRUE,
       instances |-> <<InstanceDescriptor("Regular", Some("build/instances/Fam-Regular.ufo")),
                       InstanceDescriptor("Bold", Some("Fam-Bold.ufo")),
                       InstanceDescriptor("Regular", Some("build/other/Fam-Regular2.ufo"))>>],
      [path |-> "sources/Bare.glyphs", is_glyphs |-> TRUE,
       instances |-> <<InstanceDescriptor("Bold", None)>>],
      [path |-> "sources/Empty.designspace", is_glyphs |-> FALSE,
       instances |-> <<>>] }

\* the configurations of the step: instance_name and target are optional
Originals ==
    { n @@ t @@ [operation |-> "instantiateUfo"] :
        n \in { <<>>, [instance_name |-> "Regular"], [instance_name |-> "Bold"],
                [instance_name |-> "Black"] },
        t \in { <<>>, [target |-> "out/Custom.ufo"], [target |-> "Fam-Regular.ufo"] } }

RECURSIVE Matching(_, _)
\* [i for i in instances if i.name == desired]
Matching(instances, desired) ==
    IF instances = <<>> THEN <<>>
    ELSE (IF Head(instances).name = desired THEN <<Head(instances)>> ELSE <<>>)
         \o Matching(Tail(instances), desired)

\* relevant_instance taking the last instance of the name
relevant_instance_last(orig, src) ==
    IF Len(Matching(src.instances, orig["instance_name"])) = 0 THEN None
    ELSE Some(Matching(src.instances, orig["instance_name"])
                 [Len(Matching(src.instances, orig["instance_name"]))])

\* relevant_instance, computed
relevant_instance(orig, src) ==
    IF Len(Matching(src.instances, orig["instance_name"])) = 0 THEN None
    ELSE Some(Matching(src.instances, orig["instance_name"])[1])

\* relevant_instance as a cached property: computed on first access only
CachedRelevant(orig, src, c) ==
    IF IsNone(c) THEN relevant_instance(orig, src) ELSE c[1]

\* targets, given the relevant instance: the paths of the File objects, or
\* the exception raised
targets(orig, src, instance) ==
    IF Has(orig, "target") THEN [err |-> "", files |-> <<orig["target"]>>]
    ELSE IF IsNone(instance) THEN [err |-> "AssertionError", files |-> <<>>]
    ELSE IF IsNone(instance[1].filename)
         THEN [err |-> "AssertionError", files |-> <<>>]
    ELSE IF src.is_glyphs
         THEN [err |-> "",
               files |-> <<"instance_ufos/" \o Basename(instance[1].filename[1])>>]
    ELSE [err |-> "", files |-> <<instance[1].filename[1]>>]

InitOperation ==
    /\ original \in Originals
    /\ first_source \in FirstSources
    /\ opPc = "new"
    /\ opErr = ""
    /\ opTargets = <<>>
    /\ cache = None
    /\ config = <<>>
    /\ recipe = <<>>
    /\ pc = "idle"
    /\ err = ""
    /\ ninjaFile = "absent"
    /\ rules = <<>>
    /\ edges = <<>>
    /\ temporaries = <<>>
    /\ designspaces = <<>>
    /\ disk = {}
    /\ running = {}
    /\ done = {}
    /\ ninjaRc = -1
    /\ plan = <<>>

\* InstantiateUFO.validate
Validate ==
    /\ opPc = "new"
    /\ IF ~Has(original, "instance_name")
       THEN opPc' = "invalid" /\ opErr' = "ValueError" /\ cache' = cache
       ELSE IF ~Has(original, "target")
            THEN /\ cache' = Some(CachedRelevant(original, first_source, cache))
                 /\ IF IsNone(CachedRelevant(original, first_source, cache))
                    THEN opPc' = "invalid" /\ opErr' = "ValueError"
                    ELSE opPc' = "validated" /\ opErr' = opErr
            ELSE opPc' = "validated" /\ opErr' = opErr /\ cache' = cache
    /\ UNCHANGED <<original, first_source, opTargets, builderVars>>

\* reading InstantiateUFO.targets
Targets ==
    /\ opPc = "validated"
    /\ cache' = IF Has(original, "target") THEN cache
                ELSE Some(CachedRelevant(original, first_source, cache))
    /\ LET r == targets(original, first_source,
                        IF Has(original, "target") THEN None
                        ELSE CachedRelevant(original, first_source, cache))
       IN /\ opTargets' = r.files
          /\ opErr' = r.err
          /\ opPc' = IF r.err = "" THEN "done" ELSE "failed"
    /\ UNCHANGED <<original, first_source, builderVars>>

\* InstantiateUFO.set_target: always refused
SetTarget ==
    /\ opPc \in {"validated", "done"}
    /\ opPc' = "refused"
    /\ opErr' = "ValueError"
    /\ UNCHANGED <<original, first_source, opTargets, cache, builderVars>>

NextOperation == Validate \/ Targets \/ SetTarget

SpecOperation == InitOperation /\ [][NextOperation]_vars

(***************************************************************************)
(* Properties of the builder.                                              *)
(***************************************************************************)

\* the statements written with a given rule
EdgesOf(rule) == { i \in 1..Len(edges) : edges[i].rule = rule }

\* the statements the executor has started
Started == running \cup done

\* build_variable has run and returned
BuildVariableReturned ==
    /\ ninjaFile # "absent"
    /\ recipe["buildVariable"]
    /\ pc \notin {"designspaces", "variable"}
    /\ err \notin {"ValueError", "UnboundLocalError"}

\* build_static has run and returned
BuildStaticReturned ==
    /\ ninjaFile # "absent"
    /\ recipe["buildStatic"]
    /\ pc \notin {"designspaces", "variable", "static"}
    /\ pc = "raised" =>
          \/ err = "AttributeError"
          \/ err = "NotImplementedError" /\ ~recipe["buildVariable"]

\* the variable fonts the compile statements output
VariableTargetSet == UNION { Range(edges[v].outputs) : v \in EdgesOf("variable") }

\* the static TTFs the compile statements output
TTFTargetSet == UNION { Range(edges[b].outputs) : b \in EdgesOf("buildttf") }

\* C1: once build_variable has returned there is exactly one genstat
\* statement; its inputs are exactly the variable targets; every variable
\* target has a fix statement and each such fix statement has the genstat
\* stamp as an implicit input; the executor starts no such fix statement
\* before genstat has finished, and does not start genstat before every
\* variable compile statement it runs has finished.
C1_GenStatBarrier ==
    BuildVariableReturned =>
       /\ Cardinality(EdgesOf("genstat")) = 1
       /\ \A g \in EdgesOf("genstat") :
             /\ Range(edges[g].inputs) = VariableTargetSet
             /\ Len(edges[g].outputs) = 1
             /\ \A t \in VariableTargetSet :
                   /\ \E f \in EdgesOf("fix") : edges[f].inputs = <<t>>
                   /\ \A f \in EdgesOf("fix") :
                         edges[f].inputs = <<t>> =>
                            /\ edges[g].outputs[1] \in Range(edges[f].implicit)
                            /\ f \in Started => g \in done
             /\ g \in Started =>
                   /\ \A v \in EdgesOf("variable") \cap DOMAIN plan : v \in done
                   /\ VariableTargetSet \subseteq disk

\* C1 witness: two variable fonts, genstat finished, a variable fix running
C1_Witness ==
    /\ BuildVariableReturned
    /\ Cardinality(VariableTargetSet) >= 2
    /\ \E g \in EdgesOf("genstat") : g \in done
    /\ \E f \in EdgesOf("fix") \cap running : edges[f].inputs[1] \in VariableTargetSet

\* C2: once build_static has returned with TTFs requested, every static TTF
\* has a fix statement; with autohintTTF there is a hint statement that
\* outputs the TTF's hint stamp, every fix statement of the TTF has exactly
\* that stamp as implicit input and is started only after a hint statement
\* of that TTF has finished; without autohintTTF there is no hint statement
\* and the fix statements of the TTF have no implicit input.
C2_FixAfterHint ==
    (BuildStaticReturned /\ recipe["buildTTF"]) =>
       \A t \in TTFTargetSet :
          /\ \E f \in EdgesOf("fix") : edges[f].inputs = <<t>>
          /\ IF recipe["autohintTTF"]
             THEN /\ \E h \in EdgesOf("autohint") :
                        /\ edges[h].inputs = <<t>>
                        /\ edges[h].outputs = <<t \o ".autohintstamp">>
                  /\ \A f \in EdgesOf("fix") :
                        edges[f].inputs = <<t>> =>
                           /\ edges[f].implicit = <<t \o ".autohintstamp">>
                           /\ f \in Started =>
                                 \E h \in EdgesOf("autohint") \cap done :
                                    edges[h].outputs = <<t \o ".autohintstamp">>
             ELSE /\ EdgesOf("autohint") = {}
                  /\ \A f \in EdgesOf("fix") :
                        edges[f].inputs = <<t>> => edges[f].implicit = <<>>

\* C2 witness: hinting enabled, a hint finished and the fix of that TTF running
C2_Witness ==
    /\ BuildStaticReturned
    /\ recipe["buildTTF"] /\ recipe["autohintTTF"]
    /\ \E f \in EdgesOf("fix") \cap running :
          /\ edges[f].inputs[1] \in TTFTargetSet
          /\ \E h \in EdgesOf("autohint") \cap done : edges[h].inputs = edges[f].inputs

\* C3 (as claimed): with an unsupported key present, no run has the graph
\* file created and build() failed for an unsupported or unimplemented
\* feature.
C3_NoFailureAfterOpen ==
    (\E i \in 1..Len(UNSUPPORTED) : Has(recipe, UNSUPPORTED[i])) =>
       ~(ninjaFile # "absent" /\ err \in {"ValueError", "NotImplementedError"})

\* C4 (as claimed): after the executor has exited with success and stamp
\* files were recorded, build() returns without error and no recorded
\* stamp file is left on disk.
C4_CleanupCompletes ==
    (ninjaRc = 0 /\ pc # "tidy" /\ temporaries # <<>>) =>
       /\ pc = "returned"
       /\ err = ""
       /\ Range(temporaries) \cap disk = {}

\* the TTF path with its leading ttDir replaced by woffDir and its trailing
\* .ttf replaced by .woff2
ExpectedWebfont(ttf) ==
    recipe["woffDir"]
    \o SubSeq(ttf, Len(PathStr(recipe["ttDir"])) + 1, Len(ttf) - Len(".ttf"))
    \o ".woff2"

\* C5 (as claimed): every webfont statement outputs the path of its TTF
\* with only the directory prefix and the suffix replaced, has the TTF as
\* input and the TTF's fix stamp, output of a fix statement, as implicit
\* input.
C5_WebfontPath ==
    \A w \in EdgesOf("webfont") :
       /\ Len(edges[w].inputs) = 1
       /\ edges[w].outputs = <<ExpectedWebfont(edges[w].inputs[1])>>
       /\ edges[w].implicit = <<edges[w].inputs[1] \o ".fixstamp">>
       /\ \E f \in EdgesOf("fix") : edges[f].outputs = edges[w].implicit

\* C6 (as claimed): no path is an output of more than one statement.
C6_UniqueOutputs == ~HasDuplicateOutputs(edges)

IsStamp(p) ==
    \/ EndsWith(p, ".statstamp")
    \/ EndsWith(p, ".autohintstamp")
    \/ EndsWith(p, ".fixstamp")

\* path p is an input or implicit input of a statement other than one that
\* outputs it
Consumed(p) ==
    \E i \in 1..Len(edges) :
       p \in Needs(edges, i) /\ p \notin Range(edges[i].outputs)

\* C7 (as claimed): in the finished graph every stamp file some statement
\* outputs is an input or implicit input of another statement.
C7_EveryStampConsumed ==
    ninjaFile = "closed" =>
       \A p \in AllOutputs(edges) : IsStamp(p) => Consumed(p)

\* C7 (amended): in the finished graph every genstat stamp and every hint
\* stamp is an implicit input of a fix statement, and a fix stamp is
\* consumed by another statement exactly when it is the fix stamp of a
\* static TTF and buildWebfont is set.
C7_StampConsumers ==
    ninjaFile = "closed" =>
       \A i \in 1..Len(edges) :
          \A p \in Range(edges[i].outputs) :
             /\ edges[i].rule \in {"genstat", "autohint"} =>
                   \E f \in EdgesOf("fix") : p \in Range(edges[f].implicit)
             /\ edges[i].rule = "fix" =>
                   (Consumed(p) <=>
                      /\ recipe["buildWebfont"]
                      /\ edges[i].inputs[1] \in TTFTargetSet)

\* C7 witness: a finished graph with a consumed hint stamp, a consumed
\* genstat stamp and fix stamps nobody consumes
C7_Witness ==
    /\ ninjaFile = "closed"
    /\ ~recipe["buildWebfont"]
    /\ EdgesOf("genstat") # {}
    /\ EdgesOf("autohint") # {}
    /\ \E f \in EdgesOf("fix") : ~Consumed(edges[f].outputs[1])

\* the tags of a set, sorted
SortedTags(S) == Sorted(CHOOSE q \in Enumerations(S) : TRUE)

\* C9 (as claimed): the axis order bound on the genstat statement is the
\* override when the recipe has one, else the sorted axis tags of all the
\* designspaces whose variable fonts are its inputs, followed by "ital"
\* exactly when a designspace path contains "italic" in any case.
C9_AxisOrder ==
    BuildVariableReturned =>
       \A g \in EdgesOf("genstat") :
          edges[g].variables["axis_order"] =
             IF Has(recipe, "axisOrder") THEN recipe["axisOrder"]
             ELSE SortedTags(UNION { Range(designspaces[i].doc.axes) :
                                       i \in 1..Len(designspaces) })
                  \o (IF AnyItalic(designspaces) THEN <<"ital">> ELSE <<>>)

\* C10 (as claimed): the configuration is the one the caller handed over.
C10_ConfigUnchanged == config = recipe

\* gen_stat has been entered
GenStatEntered ==
    /\ ninjaFile # "absent"
    /\ recipe["buildVariable"]
    /\ pc \notin {"designspaces", "variable"}
    /\ designspaces # <<>>

\* C10 (amended): every key the caller set keeps its value; the only change
\* is that gen_stat adds the key axisOrder when the caller did not set it,
\* with the sorted axis tags of the last designspace, followed by "ital"
\* when a designspace path contains "italic".
C10_ConfigFrame ==
    /\ \A k \in DOMAIN recipe : Has(config, k) /\ config[k] = recipe[k]
    /\ DOMAIN config \subseteq DOMAIN recipe \cup {"axisOrder"}
    /\ DOMAIN config # DOMAIN recipe <=>
          (pc # "idle" /\ GenStatEntered /\ ~Has(recipe, "axisOrder"))
    /\ DOMAIN config # DOMAIN recipe =>
          config["axisOrder"] =
             Sorted(designspaces[Len(designspaces)].doc.axes)
             \o (IF AnyItalic(designspaces) THEN <<"ital">> ELSE <<>>)

\* C10 witness: gen_stat has filled in the axis order
C10_Witness ==
    /\ ~Has(recipe, "axisOrder")
    /\ Has(config, "axisOrder")
    /\ EdgesOf("genstat") # {}

(***************************************************************************)
(* Properties of InstantiateUFO.                                           *)
(***************************************************************************)

\* the instances of the upstream source with the configured name
NamedInstances ==
    { i \in 1..Len(first_source.instances) :
        first_source.instances[i].name = original["instance_name"] }

\* the first of them
FirstNamed ==
    first_source.instances[CHOOSE i \in NamedInstances :
                              \A j \in NamedInstances : i <= j]

\* validate must fail: no instance name, or no override and no such instance
MustFail ==
    \/ ~Has(original, "instance_name")
    \/ ~Has(original, "target") /\ NamedInstances = {}

\* the one target of a valid operation whose instance has a file name
ExpectedTargets ==
    IF Has(original, "target") THEN <<original["target"]>>
    ELSE IF first_source.is_glyphs
         THEN <<"instance_ufos/" \o Basename(FirstNamed.filename[1])>>
    ELSE <<FirstNamed.filename[1]>>

====
